---- MODULE Spec2Model ----
(***************************************************************************)
(* Model of the DingTalk AI assistant: the per-user conversation history   *)
(* kept by OpenAIUtils (src/utils/openai_utils.py), the message router of  *)
(* the Flask application (src/app/app.py), the signature check of          *)
(* DingTalkUtils (src/utils/dingtalk_utils.py) and the daily news push of  *)
(* NewsScheduler (src/app/scheduler.py) with NewsUtils                     *)
(* (src/utils/news_utils.py).                                              *)
(*                                                                         *)
(* A request handler is a thread.  The statements of OpenAIUtils.chat that *)
(* read or write the shared dictionary conversation_history are separate   *)
(* steps (the code takes no lock), named after their source line.          *)
(***************************************************************************)
EXTENDS Integers, Sequences, FiniteSets, TLC

VARIABLES
    conversation_history,   \* OpenAIUtils.conversation_history: user id -> list of turns
    th,                     \* per handler thread: position and local variables
    sent,                   \* per user: number of messages handed to chat so far
    failures,               \* number of backend calls that have failed so far
    failed,                 \* the messages whose backend call has failed
    clears,                 \* number of clear_conversation calls so far
    cleared,                \* users cleared and with no user turn appended since
    cl,                     \* a call of should_generate_report and its result
    voice_processor,        \* VoiceProcessor: the cached _access_token
    config,                 \* Config: the settings read from the environment
    sched,                  \* a run of NewsScheduler.push_daily_news
    vcall                   \* a call of verify_signature and its result

\* the variables no webhook handler writes
envVars == <<config, sched, vcall>>

vars ==
    <<conversation_history, th, sent, failures, failed, clears, cleared, cl,
      voice_processor, envVars>>

----------------------------------------------------------------------------
(* Bounds of the model *)

\* chat calls explored in a sequential run
MaxChats == 12
\* failing backend calls explored
MaxFailures == 1
\* clear_conversation calls explored
MaxClears == 1
\* length of the message texts given to should_generate_report
MaxMessageLen == 3
\* length of a keyword, and number of keywords in the list
MaxKeywordLen == 2
MaxKeywords == 2
\* completed chats of user u1 before the concurrent requests start
WarmChats == 10
\* chat calls explored among the concurrent requests
MaxNewChats == 2
\* byte positions of a signature at which a changed byte is tried
MaxFlips == 2
\* access tokens obtained before the last voice message arrives
MaxTokens == 2
\* runs of push_daily_news and get_daily_news explored
MaxRuns == 2
\* articles in an answer of the news source
MaxArticles == 2

(* Program constants *)

\* openai_utils.py:57  `if len(...) > 21`
HistoryLimit == 21
\* openai_utils.py:60  `[-20:]`
RecentCount == 20
\* dingtalk_utils.py:33  one hour in milliseconds
SignatureWindowMs == 3600000

\* config.py:19-20  DINGTALK_APP_KEY, DINGTALK_APP_SECRET as deployed
DINGTALK_APP_KEY == "app-key"
DINGTALK_APP_SECRET == "app-secret"
\* config.py:21,30  DINGTALK_WEBHOOK_URL, NEWS_API_KEY as deployed
DINGTALK_WEBHOOK_URL == "webhook-url"
NEWS_API_KEY == "news-api-key"

\* the settings of a full deployment
Deployed ==
    [DINGTALK_APP_KEY |-> DINGTALK_APP_KEY,
     DINGTALK_APP_SECRET |-> DINGTALK_APP_SECRET,
     DINGTALK_WEBHOOK_URL |-> DINGTALK_WEBHOOK_URL,
     NEWS_API_KEY |-> NEWS_API_KEY]

\* each setting is os.getenv(NAME, ''): empty when the environment lacks it
Configs ==
    [DINGTALK_APP_KEY : {"", DINGTALK_APP_KEY},
     DINGTALK_APP_SECRET : {"", DINGTALK_APP_SECRET},
     DINGTALK_WEBHOOK_URL : {"", DINGTALK_WEBHOOK_URL},
     NEWS_API_KEY : {"", NEWS_API_KEY}]

\* config.py:42  Config.SYSTEM_PROMPT (a non-empty literal), as a text
SYSTEM_PROMPT == <<"system-prompt">>

\* config.py:51  Config.REPORT_TRIGGER_KEYWORDS; a text is a sequence of characters
REPORT_TRIGGER_KEYWORDS ==
    << <<"bao", "gao">>, <<"xiang", "xi">>, <<"fen", "xi">>,
       <<"shen", "ru">>, <<"yan", "jiu">> >>

Users == {"u1", "u2"}
Threads == {"t1", "t2"}
SeqThreads == {"t1"}

\* texts of inbound messages: one without and one with a trigger keyword
ChatText == <<"ni", "hao">>
ReportText == <<"xie", "bao", "gao">>
Texts == {ChatText, ReportText}

----------------------------------------------------------------------------
(* Turns.  The content of a turn is a text; the texts of distinct messages  *)
(* are kept apart by the sender and the sender's message number.            *)

Content(text, from, n) == [text |-> text, from |-> from, n |-> n]
Turn(role, content) == [role |-> role, content |-> content]

NoContent == Content(<<>>, "", 0)
SystemTurn == Turn("system", Content(SYSTEM_PROMPT, "", 0))
UserTurn(m) == Turn("user", m)
\* the backend's completion for a payload that ends with the user message m
AssistantTurn(m) == Turn("assistant", Content(<<"reply">>, m.from, m.n))

----------------------------------------------------------------------------
(* Python list and dict operations *)

\* faulty variants of lst[-k:]: one turn too many, and the oldest turns
LastK_OffByOne(lst, k) ==
    IF Len(lst) <= k + 1 THEN lst ELSE SubSeq(lst, Len(lst) - k, Len(lst))
LastK_Oldest(lst, k) ==
    IF Len(lst) <= k THEN lst ELSE SubSeq(lst, 1, k)

\* lst[-k:]
LastK(lst, k) ==
    IF Len(lst) <= k THEN lst ELSE SubSeq(lst, Len(lst) - k + 1, Len(lst))

\* faulty variant of the filter below: the system turn is not kept
SystemOnly_None(lst) == SelectSeq(lst, LAMBDA t : FALSE)

\* [msg for msg in lst if msg['role'] == 'system']
SystemOnly(lst) == SelectSeq(lst, LAMBDA t : t.role = "system")

\* d[k] = v
DictSet(d, k, v) == [x \in DOMAIN d \cup {k} |-> IF x = k THEN v ELSE d[x]]

\* faulty variants of del d[k]: the key is kept with an empty list, and
\* every key is dropped
DictDel_Emptied(d, k) == [x \in DOMAIN d |-> IF x = k THEN << >> ELSE d[x]]
DictDel_All(d, k) == [x \in {} |-> << >>]

\* del d[k]
DictDel(d, k) == [x \in DOMAIN d \ {k} |-> d[x]]

----------------------------------------------------------------------------
(* OpenAIUtils.should_generate_report: any(keyword in message ...) *)

\* faulty variant of `keyword in message`: message.startswith(keyword)
StrIn_Prefix(keyword, message) ==
    Len(keyword) <= Len(message) /\ SubSeq(message, 1, Len(keyword)) = keyword

\* Python's `keyword in message` on strings
StrIn(keyword, message) ==
    \E i \in 0 .. (Len(message) - Len(keyword)) :
        SubSeq(message, i + 1, i + Len(keyword)) = keyword

\* faulty variant of should_generate_report: never a report
should_generate_report_Never(message, keywords) == FALSE

should_generate_report(message, keywords) ==
    \E j \in 1 .. Len(keywords) : StrIn(keywords[j], message)

\* no call of should_generate_report recorded
NoCall == [message |-> << >>, keywords |-> << >>, result |-> "none"]

\* VoiceProcessor as constructed (audio_utils.py:168).  access_token: 0 for
\* None, else the number of the token held; issued: the tokens obtained so far
NoToken == [access_token |-> 0, issued |-> 0]

\* no news text made yet
NoNewsContent == [text |-> "none", items |-> << >>]

\* no run of push_daily_news or get_daily_news started.  op: which of the
\* two was called; live: how the request to the news source ended; gets and
\* posts: the requests made to the news source and to the group webhook
\* during the run; runs: the runs started so far
NoRun == [pc |-> "idle", op |-> "none", use_mock |-> FALSE, live |-> "none",
          news_list |-> << >>, news_content |-> NoNewsContent,
          gets |-> 0, posts |-> 0, outcome |-> "none", runs |-> 0]

\* no call of verify_signature recorded
NoVerify == [now |-> 0, timestamp |-> [fmt |-> "none", val |-> 0],
             sign |-> << >>, app_secret |-> "", result |-> "none"]

----------------------------------------------------------------------------
(* Thread-local state *)

\* op: what the request turned out to be; sig: how verify_signature ended;
\* access_token: the token process_voice_message got (0 for None);
\* status, reply: the HTTP status and the reply text the handler returned;
\* detail: the text str(e) of an exception when the reply is built from it
Idle ==
    [pc |-> "idle", op |-> "none", sig |-> "none", user_id |-> "",
     message |-> NoContent, system_msg |-> << >>, recent_msgs |-> << >>,
     messages |-> << >>, report_content |-> "none",
     status |-> 0, reply |-> "none", detail |-> "", access_token |-> 0]

\* a request that has been answered: what it was and what was returned is kept
Done(t, status, reply) ==
    [Idle EXCEPT !.pc = "done", !.op = t.op, !.sig = t.sig,
                 !.user_id = t.user_id,
                 !.report_content = t.report_content,
                 !.status = status, !.reply = reply]

\* a request answered with a reply f"...{str(e)}" made from the exception e
DoneError(t, reply, e) == [Done(t, 200, reply) EXCEPT !.detail = e]

\* what str(e) may be when the backend call raises, and for a KeyError
Exceptions == {"Request timed out.", "Connection error."}
KeyErrorText == "KeyError"

Free(p) == th[p].pc \in {"idle", "done"}

TotalSent == sent["u1"] + sent["u2"]

Init ==
    /\ conversation_history = << >>
    /\ th = [p \in Threads |-> Idle]
    /\ sent = [u \in Users |-> 0]
    /\ failures = 0
    /\ failed = {}
    /\ clears = 0
    /\ cleared = {}
    /\ cl = NoCall
    /\ voice_processor = NoToken
    /\ config = Deployed
    /\ sched = NoRun
    /\ vcall = NoVerify

----------------------------------------------------------------------------
(* DingTalkUtils.verify_signature *)

\* a `timestamp` header: absent (the handler reads ''), not a number, the
\* decimal text of the integer val, or that text with blanks around it
\* (int() accepts it, and it is another text to sign)
TsMissing == [fmt |-> "missing", val |-> 0]
TsJunk == [fmt |-> "junk", val |-> 0]
TsInt(n) == [fmt |-> "int", val |-> n]
TsPadded(n) == [fmt |-> "padded", val |-> n]

\* base64(HMAC-SHA256(key, message)), kept symbolic
HmacSha256B64(key, message) == <<"hmac-sha256", key, message>>

\* faulty variant of abs(): the sign is kept
Abs_Identity(x) == x

Abs(x) == IF x < 0 THEN -x ELSE x

\* "raised" when int(timestamp) raises ValueError, else "true" or "false"
verify_signature(now, timestamp, sign, app_secret) ==
    IF timestamp.fmt \notin {"int", "padded"} THEN "raised"
    ELSE IF Abs(now - timestamp.val) > SignatureWindowMs THEN "false"
    ELSE IF HmacSha256B64(app_secret, <<timestamp, "\n", app_secret>>) = sign
         THEN "true" ELSE "false"

----------------------------------------------------------------------------
(* DingTalkUtils.parse_message: the fields the handlers use.  A body that   *)
(* is not a JSON object makes request.json or parse_message raise.          *)

NotJson == [json |-> FALSE, msgtype |-> "", senderId |-> "",
            content |-> << >>, downloadCode |-> ""]
TextBody(u, text) == [json |-> TRUE, msgtype |-> "text", senderId |-> u,
                      content |-> text, downloadCode |-> ""]
AudioBody(u, code) == [json |-> TRUE, msgtype |-> "audio", senderId |-> u,
                       content |-> << >>, downloadCode |-> code]
OtherBody(u, type) == [json |-> TRUE, msgtype |-> type, senderId |-> u,
                       content |-> << >>, downloadCode |-> ""]

parse_message(data) ==
    [msg_type |-> data.msgtype, sender_id |-> data.senderId,
     content |-> IF data.msgtype = "text" THEN data.content ELSE << >>,
     download_code |-> IF data.msgtype \in {"audio", "picture"}
                       THEN data.downloadCode ELSE ""]

----------------------------------------------------------------------------
(* The webhook endpoint (app.py:59-110) up to the first call that blocks,   *)
(* with the routing of handle_text_message (app.py:125-135) and the checks  *)
(* of handle_audio_message (app.py:212-229).                                *)

\* the thread's record once a chat call for `text` from user_id is entered
EnterChat(op, sigv, user_id, text) ==
    [Idle EXCEPT !.pc = "L42", !.op = op, !.sig = sigv, !.user_id = user_id,
                 !.message = Content(text, user_id, sent[user_id] + 1)]

handle_text_message(sigv, user_id, text) ==
    IF should_generate_report(text, REPORT_TRIGGER_KEYWORDS)
    THEN [Idle EXCEPT !.pc = "report", !.op = "report", !.sig = sigv,
                      !.user_id = user_id,
                      !.message = Content(text, user_id, 0)]
    ELSE EnterChat("chat", sigv, user_id, text)

\* faulty variant of handle_audio_message: only the application key is checked
handle_audio_message_KeyOnly(sigv, info) ==
    LET t == [Idle EXCEPT !.op = "audio", !.sig = sigv,
                          !.user_id = info.sender_id]
    IN  IF info.download_code = ""
        THEN Done(t, 200, "no_voice_file")
        ELSE IF config.DINGTALK_APP_KEY = ""
        THEN Done(t, 200, "voice_unconfigured")
        ELSE [t EXCEPT !.pc = "voice"]

handle_audio_message(sigv, info) ==
    LET t == [Idle EXCEPT !.op = "audio", !.sig = sigv,
                          !.user_id = info.sender_id]
    IN  IF info.download_code = ""
        THEN Done(t, 200, "no_voice_file")
        ELSE IF config.DINGTALK_APP_KEY = "" \/ config.DINGTALK_APP_SECRET = ""
        THEN Done(t, 200, "voice_unconfigured")
        ELSE [t EXCEPT !.pc = "voice"]

webhook(p, req) ==
    /\ Free(p)
    /\ LET sigv == verify_signature(req.now, req.timestamp, req.sign,
                                     config.DINGTALK_APP_SECRET)
           rejected == [Idle EXCEPT !.op = "rejected", !.sig = sigv]
           info == parse_message(req.body)
           t == IF sigv = "raised" THEN Done(rejected, 200, "webhook_error")
                ELSE IF sigv = "false" THEN Done(rejected, 401, "signature_failed")
                ELSE IF ~req.body.json
                THEN Done([rejected EXCEPT !.op = "invalid"], 200, "webhook_error")
                ELSE IF info.msg_type = "text"
                THEN handle_text_message(sigv, info.sender_id, info.content)
                ELSE IF info.msg_type = "audio"
                THEN handle_audio_message(sigv, info)
                ELSE Done([rejected EXCEPT !.op = "unsupported",
                                           !.user_id = info.sender_id],
                          200, "unsupported_type")
       IN  /\ th' = [th EXCEPT ![p] = t]
           /\ sent' = IF t.pc = "L42"
                      THEN [sent EXCEPT ![t.user_id] = @ + 1] ELSE sent
    /\ UNCHANGED <<conversation_history, failures, failed, clears, cleared, cl, voice_processor, envVars>>

----------------
(* OpenAIUtils.chat, statement by statement *)

\* line 42: `if user_id not in self.conversation_history`
chat_L42(p) ==
    /\ th[p].pc = "L42"
    /\ th' = [th EXCEPT ![p].pc =
                 IF th[p].user_id \notin DOMAIN conversation_history
                 THEN "L43" ELSE "L51"]
    /\ UNCHANGED <<conversation_history, sent, failures, failed, clears, cleared, cl, voice_processor, envVars>>

\* line 43: `self.conversation_history[user_id] = []`
chat_L43(p) ==
    /\ th[p].pc = "L43"
    /\ conversation_history' = DictSet(conversation_history, th[p].user_id, << >>)
    /\ th' = [th EXCEPT ![p].pc = IF SYSTEM_PROMPT # << >> THEN "L45" ELSE "L51"]
    /\ UNCHANGED <<sent, failures, failed, clears, cleared, cl, voice_processor, envVars>>

\* a KeyError raised in chat outside its try block is caught by the caller:
\* handle_text_message (app.py:139-141) or handle_audio_message (app.py:248-250)
RaisedInChat(p) ==
    [th EXCEPT ![p] = Done(th[p], 200,
                           IF th[p].op = "audio" THEN "audio_error"
                           ELSE "text_error")]

\* lines 45-48: append the system turn
chat_L45(p) ==
    /\ th[p].pc = "L45"
    /\ LET u == th[p].user_id
       IN  IF u \in DOMAIN conversation_history
           THEN /\ conversation_history' =
                       [conversation_history EXCEPT ![u] = Append(@, SystemTurn)]
                /\ th' = [th EXCEPT ![p].pc = "L51"]
           ELSE /\ th' = RaisedInChat(p)
                /\ UNCHANGED conversation_history
    /\ UNCHANGED <<sent, failures, failed, clears, cleared, cl, voice_processor, envVars>>

\* lines 51-54: append the user turn
chat_L51(p) ==
    /\ th[p].pc = "L51"
    /\ LET u == th[p].user_id
       IN  IF u \in DOMAIN conversation_history
           THEN /\ conversation_history' =
                       [conversation_history EXCEPT
                           ![u] = Append(@, UserTurn(th[p].message))]
                /\ th' = [th EXCEPT ![p].pc = "L57"]
                /\ cleared' = cleared \ {u}
           ELSE /\ th' = RaisedInChat(p)
                /\ UNCHANGED <<conversation_history, cleared>>
    /\ UNCHANGED <<sent, failures, failed, clears, cl, voice_processor, envVars>>

\* line 57: `if len(self.conversation_history[user_id]) > 21`
chat_L57(p) ==
    /\ th[p].pc = "L57"
    /\ LET u == th[p].user_id
       IN  IF u \in DOMAIN conversation_history
           THEN th' = [th EXCEPT ![p].pc =
                          IF Len(conversation_history[u]) > HistoryLimit
                          THEN "L59" ELSE "L65"]
           ELSE th' = RaisedInChat(p)
    /\ UNCHANGED <<conversation_history, sent, failures, failed, clears, cleared, cl, voice_processor, envVars>>

\* line 59: system_msg = [msg for msg in ... if msg['role'] == 'system']
chat_L59(p) ==
    /\ th[p].pc = "L59"
    /\ LET u == th[p].user_id
       IN  IF u \in DOMAIN conversation_history
           THEN th' = [th EXCEPT ![p].pc = "L60",
                                 ![p].system_msg = SystemOnly(conversation_history[u])]
           ELSE th' = RaisedInChat(p)
    /\ UNCHANGED <<conversation_history, sent, failures, failed, clears, cleared, cl, voice_processor, envVars>>

\* line 60: recent_msgs = self.conversation_history[user_id][-20:]
chat_L60(p) ==
    /\ th[p].pc = "L60"
    /\ LET u == th[p].user_id
       IN  IF u \in DOMAIN conversation_history
           THEN th' = [th EXCEPT ![p].pc = "L61",
                                 ![p].recent_msgs =
                                     LastK(conversation_history[u], RecentCount)]
           ELSE th' = RaisedInChat(p)
    /\ UNCHANGED <<conversation_history, sent, failures, failed, clears, cleared, cl, voice_processor, envVars>>

\* line 61: self.conversation_history[user_id] = system_msg + recent_msgs
chat_L61(p) ==
    /\ th[p].pc = "L61"
    /\ conversation_history' =
           DictSet(conversation_history, th[p].user_id,
                   th[p].system_msg \o th[p].recent_msgs)
    /\ th' = [th EXCEPT ![p].pc = "L65"]
    /\ UNCHANGED <<sent, failures, failed, clears, cleared, cl, voice_processor, envVars>>

\* lines 63-70: the request to the backend is built from the stored transcript;
\* a KeyError here is inside the try block (lines 83-84)
chat_L65(p) ==
    /\ th[p].pc = "L65"
    /\ LET u == th[p].user_id
       IN  IF u \in DOMAIN conversation_history
           THEN th' = [th EXCEPT ![p].pc = "backend",
                                 ![p].messages = conversation_history[u]]
           ELSE th' = [th EXCEPT ![p] = DoneError(th[p], "chat_error", KeyErrorText)]
    /\ UNCHANGED <<conversation_history, sent, failures, failed, clears, cleared, cl, voice_processor, envVars>>

\* faulty variant of chat_backend: on a failure the user turn is taken back
chat_backend_Rollback(p) ==
    /\ th[p].pc = "backend"
    /\ LET u == th[p].user_id
       IN  \/ /\ IF u \in DOMAIN conversation_history
                 THEN /\ conversation_history' =
                            [conversation_history EXCEPT
                                ![u] = Append(@, AssistantTurn(th[p].message))]
                      /\ th' = [th EXCEPT ![p] = Done(th[p], 200, "assistant")]
                 ELSE /\ th' = [th EXCEPT ![p] =
                                   DoneError(th[p], "chat_error", KeyErrorText)]
                      /\ UNCHANGED conversation_history
              /\ UNCHANGED <<failures, failed>>
           \/ /\ failures < MaxFailures
              /\ failures' = failures + 1
              /\ failed' = failed \cup {th[p].message}
              /\ \E e \in Exceptions :
                    th' = [th EXCEPT ![p] = DoneError(th[p], "chat_error", e)]
              /\ conversation_history' =
                    IF u \in DOMAIN conversation_history
                    THEN [conversation_history EXCEPT
                             ![u] = SubSeq(@, 1, Len(@) - 1)]
                    ELSE conversation_history
    /\ UNCHANGED <<sent, clears, cleared, cl, voice_processor, envVars>>

\* lines 65-84: the backend answers or fails; on an answer the assistant turn
\* is appended (lines 76-79) and returned, on any exception the error text is
chat_backend(p) ==
    /\ th[p].pc = "backend"
    /\ LET u == th[p].user_id
       IN  \/ /\ IF u \in DOMAIN conversation_history
                 THEN /\ conversation_history' =
                            [conversation_history EXCEPT
                                ![u] = Append(@, AssistantTurn(th[p].message))]
                      /\ th' = [th EXCEPT ![p] = Done(th[p], 200, "assistant")]
                 ELSE /\ th' = [th EXCEPT ![p] =
                                   DoneError(th[p], "chat_error", KeyErrorText)]
                      /\ UNCHANGED conversation_history
              /\ UNCHANGED <<failures, failed>>
           \/ /\ failures < MaxFailures
              /\ failures' = failures + 1
              /\ failed' = failed \cup {th[p].message}
              /\ \E e \in Exceptions :
                    th' = [th EXCEPT ![p] = DoneError(th[p], "chat_error", e)]
              /\ UNCHANGED conversation_history
    /\ UNCHANGED <<sent, clears, cleared, cl, voice_processor, envVars>>

----------------------------------------------------------------------------
(* OpenAIUtils.clear_conversation *)

clear_conversation(p, user_id) ==
    /\ Free(p)
    /\ clears < MaxClears
    /\ clears' = clears + 1
    /\ cleared' = cleared \cup {user_id}
    /\ conversation_history' =
           IF user_id \in DOMAIN conversation_history
           THEN DictDel(conversation_history, user_id)
           ELSE conversation_history
    /\ th' = [th EXCEPT ![p] =
                 [Idle EXCEPT !.pc = "done", !.op = "clear", !.user_id = user_id]]
    /\ UNCHANGED <<sent, failures, failed, cl, voice_processor, envVars>>

----------------------------------------------------------------------------
(* handle_report_request (app.py:156-198) *)

\* app.py:162-165 with generate_report_content (openai_utils.py:111-127):
\* the backend's text, or on any exception the error text, is returned
generate_report_content(p) ==
    /\ th[p].pc = "report"
    /\ \/ th' = [th EXCEPT ![p].pc = "pdf", ![p].report_content = "report_text"]
       \/ \E e \in Exceptions :
             th' = [th EXCEPT ![p].pc = "pdf", ![p].report_content = "error_text",
                              ![p].detail = e]
    /\ UNCHANGED <<conversation_history, sent, failures, failed, clears, cleared, cl, voice_processor, envVars>>

\* app.py:169-198: the PDF is written and the success reply returned, or
\* generate_report_pdf raises and the except clause returns the error reply
generate_report_pdf(p) ==
    /\ th[p].pc = "pdf"
    /\ \/ th' = [th EXCEPT ![p] =
                    [Done(th[p], 200, "report_done") EXCEPT !.detail = th[p].detail]]
       \/ th' = [th EXCEPT ![p] = DoneError(th[p], "report_error", "pdf error")]
    /\ UNCHANGED <<conversation_history, sent, failures, failed, clears, cleared, cl, voice_processor, envVars>>

----------------------------------------------------------------------------
(* handle_audio_message after its checks (app.py:231-246) *)

\* what VoiceProcessor.process_voice_message returns: a text that starts
\* with one of the two failure prefixes, an empty text, or recognised text
VoiceFailures == {"sorry_text", "recognition_failed_text", "empty_text"}

\* audio_utils.py:172: `not self._access_token`
NoTokenCached(vp) == vp.access_token = 0

\* audio_utils.py:172-176, the first statement of process_voice_message that
\* reads shared state: with no token cached the request for one is sent
get_access_token_L172(p) ==
    /\ th[p].pc = "voice"
    /\ th' = [th EXCEPT ![p].pc = IF NoTokenCached(voice_processor)
                                  THEN "gettoken" ELSE "L177"]
    /\ UNCHANGED <<conversation_history, sent, failures, failed, clears, cleared,
                   cl, voice_processor, envVars>>

\* audio_utils.py:173 with AudioUtils.get_access_token (lines 101-133): the
\* answer to the token request, a new token or None, is stored
get_access_token_L173(p) ==
    /\ th[p].pc = "gettoken"
    /\ \/ voice_processor' =
             [voice_processor EXCEPT !.issued = @ + 1,
                                     !.access_token = voice_processor.issued + 1]
       \/ voice_processor' = [voice_processor EXCEPT !.access_token = 0]
    /\ th' = [th EXCEPT ![p].pc = "L177"]
    /\ UNCHANGED <<conversation_history, sent, failures, failed, clears, cleared,
                   cl, envVars>>

\* audio_utils.py:177 and 194-202: `return self._access_token`; without a
\* token the "sorry" text is returned, else the download request is sent
get_access_token_L177(p) ==
    /\ th[p].pc = "L177"
    /\ th' = [th EXCEPT ![p] =
                 IF voice_processor.access_token = 0
                 THEN Done(th[p], 200, "sorry_text")
                 ELSE [th[p] EXCEPT !.pc = "download",
                                    !.access_token = voice_processor.access_token]]
    /\ UNCHANGED <<conversation_history, sent, failures, failed, clears, cleared,
                   cl, voice_processor, envVars>>

\* audio_utils.py:199-208 with download_audio_from_dingtalk (lines 26-65):
\* the file arrives, or the download fails (an expired token among the
\* causes) and the "sorry" text is returned; the cached token is not touched
download_audio_from_dingtalk(p) ==
    /\ th[p].pc = "download"
    /\ \/ th' = [th EXCEPT ![p].pc = "transcribe"]
       \/ th' = [th EXCEPT ![p] = Done(th[p], 200, "sorry_text")]
    /\ UNCHANGED <<conversation_history, sent, failures, failed, clears, cleared,
                   cl, voice_processor, envVars>>

\* audio_utils.py:211-217 and app.py:236-246: the transcription returns a
\* failure text, which is the reply, or the recognised text, which
\* handle_audio_message passes to chat
process_voice_message(p) ==
    /\ th[p].pc = "transcribe"
    /\ \/ \E r \in VoiceFailures :
            /\ th' = [th EXCEPT ![p] = Done(th[p], 200, r)]
            /\ UNCHANGED sent
       \/ \E text \in Texts :
            /\ th' = [th EXCEPT ![p] =
                         EnterChat("audio", th[p].sig, th[p].user_id, text)]
            /\ sent' = [sent EXCEPT ![th[p].user_id] = @ + 1]
    /\ UNCHANGED <<conversation_history, failures, failed, clears, cleared, cl, voice_processor, envVars>>

----------------------------------------------------------------------------
(* Requests *)

\* clock readings and timestamp headers around the one-hour window
Clock == {2 * SignatureWindowMs}
Offsets == {0, SignatureWindowMs, SignatureWindowMs + 1,
            -SignatureWindowMs, -(SignatureWindowMs + 1)}
\* the timestamps of the requests sent to the server: the present one, the
\* oldest one inside the window and the nearest one outside it
RequestOffsets == {0, -SignatureWindowMs, SignatureWindowMs + 1}

\* the signature made with the secret of the deployed application, with
\* another secret, and with the empty secret of a server without the setting
GoodSign(timestamp) ==
    HmacSha256B64(DINGTALK_APP_SECRET, <<timestamp, "\n", DINGTALK_APP_SECRET>>)
EmptySecretSign(timestamp) == HmacSha256B64("", <<timestamp, "\n", "">>)
BadSign(timestamp) ==
    HmacSha256B64("other-secret", <<timestamp, "\n", "other-secret">>)

Bodies ==
    {NotJson}
    \cup {TextBody(u, text) : u \in Users, text \in Texts}
    \cup {AudioBody(u, code) : u \in Users, code \in {"", "code"}}
    \cup {OtherBody(u, "picture") : u \in Users}

Request(now, timestamp, sign, body) ==
    [now |-> now, timestamp |-> timestamp, sign |-> sign, body |-> body]

Requests ==
    {Request(now, ts, sign, body) :
        now \in Clock,
        ts \in {TsMissing, TsJunk},
        sign \in {GoodSign(TsMissing), << >>},
        body \in Bodies}
    \cup
    UNION {{Request(now, TsInt(now + d), sign, body) :
                sign \in {GoodSign(TsInt(now + d)), BadSign(TsInt(now + d)),
                          EmptySecretSign(TsInt(now + d)), << >>},
                body \in Bodies} :
            now \in Clock, d \in RequestOffsets}

\* correctly signed text messages
SeqRequests ==
    {Request(now, TsInt(now), GoodSign(TsInt(now)), TextBody(u, text)) :
        now \in Clock, u \in Users, text \in Texts}

\* correctly signed text messages without a trigger keyword
ChatRequests == {req \in SeqRequests : req.body.content = ChatText}

----------------------------------------------------------------------------

ChatStep(p) ==
    \/ chat_L42(p)
    \/ chat_L43(p)
    \/ chat_L45(p)
    \/ chat_L51(p)
    \/ chat_L57(p)
    \/ chat_L59(p)
    \/ chat_L60(p)
    \/ chat_L61(p)
    \/ chat_L65(p)
    \/ chat_backend(p)

VoiceStep(p) ==
    \/ get_access_token_L172(p)
    \/ get_access_token_L173(p)
    \/ get_access_token_L177(p)
    \/ download_audio_from_dingtalk(p)
    \/ process_voice_message(p)

ReportStep(p) ==
    \/ generate_report_content(p)
    \/ generate_report_pdf(p)

(* One request at a time, from an empty table *)
NextSeq ==
    \E p \in SeqThreads :
        \/ /\ TotalSent < MaxChats
           /\ \E req \in ChatRequests : webhook(p, req)
        \/ \E u \in Users : clear_conversation(p, u)
        \/ ChatStep(p)

SpecSeq == Init /\ [][NextSeq]_vars

(* Concurrent requests.  They start once user u1 has completed WarmChats    *)
(* chats one after the other (a state SpecSeq reaches) and user u2 has sent *)
(* nothing yet.                                                             *)
RECURSIVE ChatsDone(_, _)
ChatsDone(u, k) ==
    IF k = 0 THEN << SystemTurn >>
    ELSE LET m == Content(ChatText, u, k)
             appended == Append(ChatsDone(u, k - 1), UserTurn(m))
             trimmed == IF Len(appended) > HistoryLimit
                        THEN SystemOnly(appended) \o LastK(appended, RecentCount)
                        ELSE appended
         IN  Append(trimmed, AssistantTurn(m))

\* the messages each user has sent before the concurrent requests start
InitialSent(u) == IF u = "u1" THEN WarmChats ELSE 0

InitWarm ==
    /\ conversation_history = [u \in {"u1"} |-> ChatsDone(u, WarmChats)]
    /\ th = [p \in Threads |-> Idle]
    /\ sent = [u \in Users |-> InitialSent(u)]
    /\ failures = 0
    /\ failed = {}
    /\ clears = 0
    /\ cleared = {}
    /\ cl = NoCall
    /\ voice_processor = NoToken
    /\ config = Deployed
    /\ sched = NoRun
    /\ vcall = NoVerify

(* Concurrent chat and clear_conversation calls *)
NextConc ==
    \E p \in Threads :
        \/ /\ TotalSent < WarmChats + MaxNewChats
           /\ \E req \in ChatRequests : webhook(p, req)
        \/ \E u \in Users : clear_conversation(p, u)
        \/ ChatStep(p)

SpecConc == InitWarm /\ [][NextConc]_vars

(* The webhook endpoint with every kind of request, one request at a time, *)
(* for a server with or without the application key and secret             *)
InitWeb ==
    /\ conversation_history = [u \in {"u1"} |-> ChatsDone(u, WarmChats)]
    /\ th = [p \in Threads |-> Idle]
    /\ sent = [u \in Users |-> InitialSent(u)]
    /\ failures = 0
    /\ failed = {}
    /\ clears = 0
    /\ cleared = {}
    /\ cl = NoCall
    /\ voice_processor = NoToken
    /\ config \in {c \in Configs :
                      /\ c.DINGTALK_WEBHOOK_URL = DINGTALK_WEBHOOK_URL
                      /\ c.NEWS_API_KEY = NEWS_API_KEY}
    /\ sched = NoRun
    /\ vcall = NoVerify

NextWeb ==
    \E p \in SeqThreads :
        \/ /\ TotalSent < WarmChats + MaxNewChats
           /\ \E req \in Requests : webhook(p, req)
        \/ ChatStep(p)
        \/ ReportStep(p)
        \/ VoiceStep(p)

SpecWeb == InitWeb /\ [][NextWeb]_vars

(* Concurrent voice messages *)

\* correctly signed audio messages with a download code
VoiceRequests ==
    {Request(now, TsInt(now), GoodSign(TsInt(now)), AudioBody(u, "code")) :
        now \in Clock, u \in Users}

NextVoice ==
    \E p \in Threads :
        \/ /\ TotalSent < WarmChats + MaxNewChats
           /\ voice_processor.issued < MaxTokens
           /\ \E req \in VoiceRequests : webhook(p, req)
        \/ VoiceStep(p)
        \/ ChatStep(p)

SpecVoice == InitWarm /\ [][NextVoice]_vars

----------------------------------------------------------------------------
(* should_generate_report on its own: a message and a keyword list are      *)
(* drawn, then the function is applied.  The two characters differ in case  *)
(* only.                                                                    *)

Alphabet == {"a", "A"}
Strings(n) == UNION {[1 .. k -> Alphabet] : k \in 0 .. n}
KeywordLists ==
    UNION {[1 .. k -> Strings(MaxKeywordLen)] : k \in 0 .. MaxKeywords}

InitClassify ==
    /\ conversation_history = << >>
    /\ th = [p \in Threads |-> Idle]
    /\ sent = [u \in Users |-> 0]
    /\ failures = 0
    /\ failed = {}
    /\ clears = 0
    /\ cleared = {}
    /\ cl \in [message : Strings(MaxMessageLen), keywords : KeywordLists,
                result : {"none"}]
    /\ voice_processor = NoToken
    /\ config = Deployed
    /\ sched = NoRun
    /\ vcall = NoVerify

Classify ==
    /\ cl.result = "none"
    /\ cl' = [cl EXCEPT !.result =
                 IF should_generate_report(cl.message, cl.keywords)
                 THEN "Report" ELSE "Chat"]
    /\ UNCHANGED <<conversation_history, th, sent, failures, failed, clears, cleared, voice_processor, envVars>>

SpecClassify == InitClassify /\ [][Classify]_vars

----------------------------------------------------------------------------
(* NewsUtils.get_daily_news (news_utils.py) and NewsScheduler.push_daily_news *)
(* (scheduler.py).  A run stops at each request it makes: to the news source  *)
(* (requests.get, news_utils.py:53) and to the group webhook (requests.post,  *)
(* dingtalk_utils.py:108).                                                    *)

\* faulty variant of get_ai_news_mock: no items
get_ai_news_mock_Empty == << >>

\* news_utils.py:86-127: five fixed items
get_ai_news_mock == <<"mock-1", "mock-2", "mock-3", "mock-4", "mock-5">>

\* the n articles of an answer of the news source, as formatted at lines 60-69
LiveNews(n) == [i \in 1 .. n |-> <<"live", i>>]

\* how requests.get, raise_for_status, response.json or the formatting loop
\* may raise inside get_ai_news_from_newsapi
NewsFailures == {"timeout", "http_error", "bad_json"}

format_news_as_markdown(news_list) ==
    IF news_list = << >>
    THEN [text |-> "no_news", items |-> << >>]
    ELSE [text |-> "digest", items |-> news_list]

\* get_daily_news returns format_news_as_markdown(news_list) (line 183); in a
\* run of push_daily_news the text is then posted to the webhook when a URL
\* is set, else the run ends (scheduler.py:43-56)
ReturnNews(r, news_list) ==
    LET c == [r EXCEPT !.news_list = news_list,
                       !.news_content = format_news_as_markdown(news_list)]
    IN  IF r.op = "news"
        THEN [c EXCEPT !.pc = "done", !.outcome = "returned"]
        ELSE IF config.DINGTALK_WEBHOOK_URL # ""
        THEN [c EXCEPT !.pc = "post", !.posts = @ + 1]
        ELSE [c EXCEPT !.pc = "done", !.outcome = "skipped"]

\* news_utils.py:174-177 with lines 36-53: the mock items at once, or the
\* request to the news source
get_daily_news(r, use_mock) ==
    IF use_mock \/ config.NEWS_API_KEY = ""
    THEN ReturnNews([r EXCEPT !.use_mock = use_mock], get_ai_news_mock)
    ELSE [r EXCEPT !.use_mock = use_mock, !.pc = "newsapi", !.gets = @ + 1]

SchedFree == sched.pc \in {"idle", "done"}

\* scheduler.py:31-40: a scheduled trigger
push_daily_news ==
    /\ SchedFree
    /\ sched.runs < MaxRuns
    /\ sched' = get_daily_news([NoRun EXCEPT !.op = "push",
                                             !.runs = sched.runs + 1],
                               config.NEWS_API_KEY = "")
    /\ UNCHANGED <<conversation_history, th, sent, failures, failed, clears, cleared,
                   cl, voice_processor, config, vcall>>

\* a call of get_daily_news on its own, with either value of use_mock
get_daily_news_call ==
    /\ SchedFree
    /\ sched.runs < MaxRuns
    /\ \E use_mock \in BOOLEAN :
          sched' = get_daily_news([NoRun EXCEPT !.op = "news",
                                               !.runs = sched.runs + 1],
                                 use_mock)
    /\ UNCHANGED <<conversation_history, th, sent, failures, failed, clears, cleared,
                   cl, voice_processor, config, vcall>>

\* news_utils.py:53-75 and 179-183: the news source answers with articles or
\* the request fails; an empty list, from either, is replaced by the mock items
get_ai_news_from_newsapi ==
    /\ sched.pc = "newsapi"
    /\ \/ \E n \in 0 .. MaxArticles :
             sched' = ReturnNews([sched EXCEPT !.live = IF n = 0 THEN "empty"
                                                       ELSE "items"],
                                 IF LiveNews(n) = << >> THEN get_ai_news_mock
                                 ELSE LiveNews(n))
       \/ \E e \in NewsFailures :
             sched' = ReturnNews([sched EXCEPT !.live = e], get_ai_news_mock)
    /\ UNCHANGED <<conversation_history, th, sent, failures, failed, clears, cleared,
                   cl, voice_processor, config, vcall>>

\* how send_markdown_message ends: errcode 0, another errcode, or an
\* exception, which push_daily_news catches (scheduler.py:51-59)
PostOutcomes == {"pushed", "push_failed", "push_error"}

send_markdown_message ==
    /\ sched.pc = "post"
    /\ \E o \in PostOutcomes : sched' = [sched EXCEPT !.pc = "done", !.outcome = o]
    /\ UNCHANGED <<conversation_history, th, sent, failures, failed, clears, cleared,
                   cl, voice_processor, config, vcall>>

InitSched ==
    /\ conversation_history = << >>
    /\ th = [p \in Threads |-> Idle]
    /\ sent = [u \in Users |-> 0]
    /\ failures = 0
    /\ failed = {}
    /\ clears = 0
    /\ cleared = {}
    /\ cl = NoCall
    /\ voice_processor = NoToken
    /\ config \in {c \in Configs :
                      /\ c.DINGTALK_APP_KEY = DINGTALK_APP_KEY
                      /\ c.DINGTALK_APP_SECRET = DINGTALK_APP_SECRET}
    /\ sched = NoRun
    /\ vcall = NoVerify

NextSched ==
    \/ push_daily_news
    \/ get_daily_news_call
    \/ get_ai_news_from_newsapi
    \/ send_markdown_message

SpecSched == InitSched /\ [][NextSched]_vars

----------------------------------------------------------------------------
(* verify_signature on its own: a clock reading, a timestamp header, a      *)
(* signature and a secret are drawn, then the function is applied.          *)

\* the text of a signature with the byte at position i changed
FlipByte(sign, i) == <<"flipped", i, sign>>

VerifyTimestamps(now) ==
    {TsMissing, TsJunk}
    \cup {TsInt(now + d) : d \in Offsets}
    \cup {TsPadded(now + d) : d \in Offsets}

\* signatures offered with the timestamp ts to a server whose secret is k:
\* made with k, with another secret, over another timestamp text, with one
\* byte changed, and none
VerifySigns(ts, k) ==
    {HmacSha256B64(k, <<ts, "\n", k>>),
     HmacSha256B64("other-secret", <<ts, "\n", "other-secret">>),
     HmacSha256B64(k, <<TsInt(ts.val + 1), "\n", k>>),
     HmacSha256B64(k, <<TsPadded(ts.val), "\n", k>>),
     HmacSha256B64(k, <<TsInt(ts.val), "\n", k>>),
     << >>}
    \cup {FlipByte(HmacSha256B64(k, <<ts, "\n", k>>), i) : i \in 1 .. MaxFlips}

VerifyCallsAt(now) ==
    UNION {{[now |-> now, timestamp |-> ts, sign |-> sign, app_secret |-> k,
             result |-> "none"] : sign \in VerifySigns(ts, k)} :
           ts \in VerifyTimestamps(now), k \in {"", DINGTALK_APP_SECRET}}

VerifyCalls == UNION {VerifyCallsAt(now) : now \in Clock}

InitVerify ==
    /\ conversation_history = << >>
    /\ th = [p \in Threads |-> Idle]
    /\ sent = [u \in Users |-> 0]
    /\ failures = 0
    /\ failed = {}
    /\ clears = 0
    /\ cleared = {}
    /\ cl = NoCall
    /\ voice_processor = NoToken
    /\ config = Deployed
    /\ sched = NoRun
    /\ vcall \in VerifyCalls

Verify ==
    /\ vcall.result = "none"
    /\ vcall' = [vcall EXCEPT !.result =
                    verify_signature(vcall.now, vcall.timestamp, vcall.sign,
                                     vcall.app_secret)]
    /\ UNCHANGED <<conversation_history, th, sent, failures, failed, clears, cleared,
                   cl, voice_processor, config, sched>>

SpecVerify == InitVerify /\ [][Verify]_vars

----------------------------------------------------------------------------
(* Properties of the conversation history under one request at a time *)

NonSystem(lst) == SelectSeq(lst, LAMBDA t : t.role # "system")

IsSuffix(a, b) ==
    /\ Len(a) <= Len(b)
    /\ a = SubSeq(b, Len(b) - Len(a) + 1, Len(b))

Quiescent == \A p \in Threads : Free(p)

\* C1: once a chat call has returned, the user's stored transcript holds at
\* most 21 turns.
C1_AtMostCapAfterCall ==
    \A p \in Threads :
        (th[p].pc = "done" /\ th[p].op = "chat"
            /\ th[p].user_id \in DOMAIN conversation_history)
        => Len(conversation_history[th[p].user_id]) <= HistoryLimit

\* C2: every existing transcript has exactly one system turn, at index 0 of
\* the list (position 1 here); the only exception is the instant between the
\* creation of the list (line 43) and the seeding of the system turn (line 45).
C2_OneSystemTurnFirst ==
    \A u \in DOMAIN conversation_history :
        \/ \E p \in Threads : th[p].pc = "L45" /\ th[p].user_id = u
        \/ LET h == conversation_history[u]
           IN  /\ Len(h) >= 1
               /\ h[1] = SystemTurn
               /\ \A i \in 2 .. Len(h) : h[i].role # "system"

\* a trimmed transcript from which a call is being made, after a clear
C2_Witness ==
    \E p \in Threads :
        /\ th[p].pc = "backend"
        /\ Len(th[p].recent_msgs) = RecentCount
        /\ clears > 0
        /\ conversation_history[th[p].user_id][1] = SystemTurn

\* C3: the trimming assignment (line 61) keeps, of the non-system turns, a
\* suffix of those stored before it, unaltered and in the same order, ending
\* with the user turn just appended; exactly the RecentCount latest remain.
C3_TrimKeepsLatest ==
    [][\A p \in Threads :
          (th[p].pc = "L61" /\ th'[p].pc = "L65")
          => LET u == th[p].user_id
                 before == NonSystem(conversation_history[u])
                 after == NonSystem(conversation_history'[u])
             IN  /\ IsSuffix(after, before)
                 /\ Len(after) = RecentCount
                 /\ after[Len(after)] = UserTurn(th[p].message)]_vars

\* a transcript has just been trimmed in a run in which a backend call failed
C3_Witness ==
    \E p \in Threads :
        /\ th[p].pc = "L65"
        /\ Len(th[p].recent_msgs) = RecentCount
        /\ failures > 0

\* C4: the payload of a chat call ends with the new user message, starts
\* with the system turn, has at most 21 turns, and for a user's first message
\* is exactly the system turn and the user message.
C4_PayloadOfChat ==
    \A p \in Threads :
        th[p].pc = "backend"
        => LET m == th[p].messages
           IN  /\ Len(m) >= 2
               /\ Len(m) <= HistoryLimit
               /\ m[1] = SystemTurn
               /\ m[Len(m)] = UserTurn(th[p].message)
               /\ ~should_generate_report(th[p].message.text,
                                          REPORT_TRIGGER_KEYWORDS)
               /\ th[p].message.n = 1
                    => m = << SystemTurn, UserTurn(th[p].message) >>

\* a call is made with a full payload of 21 turns
C4_Witness ==
    \E p \in Threads :
        /\ th[p].pc = "backend"
        /\ Len(th[p].messages) = HistoryLimit
        /\ th[p].messages[HistoryLimit] = UserTurn(th[p].message)

\* the first message of a user is being sent to the backend
C4_FirstMessageSent ==
    \E p \in Threads : th[p].pc = "backend" /\ th[p].message.n = 1

\* C7: a chat that follows clear_conversation(u) starts afresh: once its
\* user turn is appended the transcript is the system turn and that turn
\* only; clear_conversation removes the transcript, and for a user without
\* one it changes nothing and raises nothing.
C7_FreshAfterClear ==
    [][/\ \A p \in Threads :
            (chat_L51(p) /\ th[p].user_id \in cleared)
            => conversation_history'[th[p].user_id]
                   = << SystemTurn, UserTurn(th[p].message) >>
       /\ \A p \in Threads, u \in Users :
            clear_conversation(p, u)
            => /\ u \notin DOMAIN conversation_history'
               /\ u \notin DOMAIN conversation_history
                    => conversation_history' = conversation_history
               /\ th'[p].reply = "none"]_vars

\* a user with earlier turns was cleared and has sent the next message
C7_Witness ==
    \E p \in Threads :
        /\ th[p].pc = "L57"
        /\ th[p].message.n > 1
        /\ clears > 0
        /\ conversation_history[th[p].user_id]
               = << SystemTurn, UserTurn(th[p].message) >>

\* C13: a chat message whose backend call failed is answered, with status
\* 200 and no exception leaving the handler, by an apology that is the
\* same text for every failure: no exception text is part of it.
C13_FixedApologyOnBackendFailure ==
    \A p \in Threads :
        (th[p].pc = "done" /\ th[p].op = "chat" /\ th[p].reply # "assistant")
        => /\ th[p].status = 200
           /\ th[p].reply \in {"chat_error", "text_error"}
           /\ th[p].detail = ""

\* C19: while every backend call has succeeded, a trimmed payload is the
\* system turn followed by the RecentCount latest turns, and these are
\* whole exchanges: the first of them is a user turn and each user turn
\* but the last is followed by its assistant turn.
C19_TrimmedPayloadIsWholeExchanges ==
    \A p \in Threads :
        (/\ th[p].pc = "backend"
         /\ failures = 0
         /\ Len(th[p].recent_msgs) = RecentCount)
        => LET m == th[p].messages
           IN  /\ Len(m) = RecentCount + 1
               /\ m[1] = SystemTurn
               /\ m[2].role = "user"
               /\ \A i \in 2 .. Len(m) - 1 :
                     m[i].role = "user" => m[i + 1] = AssistantTurn(m[i].content)

\* C20: a failing backend call leaves the transcript as it was sent, user
\* turn appended and trimming done, and appends no assistant turn; so in
\* every later payload the user turn of a failed call is followed by the
\* next user turn, and every other user turn but the last by its reply.
C20_FailedCallKeepsUserTurn ==
    [][\A p \in Threads :
          /\ (chat_backend(p) /\ failures' # failures)
                => LET u == th[p].user_id
                   IN  /\ conversation_history' = conversation_history
                       /\ conversation_history'[u] = th[p].messages
                       /\ th[p].messages[Len(th[p].messages)]
                              = UserTurn(th[p].message)
                       /\ th'[p].reply = "chat_error"
          /\ (chat_L65(p) /\ th'[p].pc = "backend")
                => LET m == th'[p].messages
                   IN  \A i \in 2 .. Len(m) - 1 :
                          m[i].role = "user"
                          => IF m[i].content \in failed
                             THEN m[i + 1].role = "user"
                             ELSE m[i + 1] = AssistantTurn(m[i].content)]_vars

\* a payload trimmed to 21 turns in which the user turn of a failed call is
\* followed by the new user turn
C20_Witness ==
    \E p \in Threads :
        /\ th[p].pc = "backend"
        /\ Len(th[p].recent_msgs) = RecentCount
        /\ LET m == th[p].messages
           IN  /\ m[Len(m) - 1].role = "user"
               /\ m[Len(m) - 1].content \in failed
               /\ m[Len(m)] = UserTurn(th[p].message)

\* the state the concurrent requests start from is one SpecSeq reaches
WarmStateReached ==
    /\ Quiescent
    /\ DOMAIN conversation_history = {"u1"}
    /\ conversation_history["u1"] = ChatsDone("u1", WarmChats)
    /\ sent = [u \in Users |-> IF u = "u1" THEN WarmChats ELSE 0]

----------------------------------------------------------------------------
(* Properties of the router and of the webhook endpoint *)

\* some contiguous slice of message equals keyword
IsSlice(keyword, message) ==
    \E i \in 0 .. Len(message), j \in 0 .. Len(message) :
        i <= j /\ SubSeq(message, i + 1, j) = keyword

\* the requests that carry a text message in which a trigger keyword occurs
ReportRequests ==
    {req \in Requests :
        /\ req.body.json
        /\ req.body.msgtype = "text"
        /\ \E j \in 1 .. Len(REPORT_TRIGGER_KEYWORDS) :
              IsSlice(REPORT_TRIGGER_KEYWORDS[j], req.body.content)}

\* C5: a text message with a trigger keyword is handed to report generation
\* with the whole text as topic; while it is handled, and whatever the
\* outcome, no statement of chat runs and no transcript changes.
C5_ReportLeavesHistory ==
    [][\A p \in Threads :
          /\ \A req \in ReportRequests :
                (th'[p].sig = "true" /\ webhook(p, req))
                => /\ th'[p].pc = "report"
                   /\ th'[p].message.text = req.body.content
                   /\ th'[p].user_id = req.body.senderId
          /\ (th[p].op = "report" \/ th'[p].op = "report")
                => conversation_history' = conversation_history
          /\ th'[p].op = "report"
                => th'[p].pc \in {"report", "pdf", "done"}]_vars

\* a report request has ended in failure while both users have a transcript
C5_Witness ==
    \E p \in Threads :
        /\ th[p].pc = "done"
        /\ th[p].op = "report"
        /\ th[p].reply = "report_error"
        /\ DOMAIN conversation_history = Users

\* C6: the result is Report exactly when some keyword of the list is a
\* substring of the message, character case included; it is Chat for the
\* empty list, and for the empty message when no keyword is empty.
C6_ReportIffSubstring ==
    cl.result # "none"
    => /\ cl.result = "Report"
            <=> \E j \in 1 .. Len(cl.keywords) : IsSlice(cl.keywords[j], cl.message)
       /\ cl.keywords = << >> => cl.result = "Chat"
       /\ (cl.message = << >> /\ \A j \in 1 .. Len(cl.keywords) : cl.keywords[j] # << >>)
            => cl.result = "Chat"

\* Report was returned for the second keyword, found inside the message
C6_Witness ==
    /\ cl.result = "Report"
    /\ Len(cl.keywords) = 2
    /\ ~IsSlice(cl.keywords[1], cl.message)
    /\ Len(cl.keywords[2]) = 2
    /\ SubSeq(cl.message, 1, 2) # cl.keywords[2]

\* C8: the endpoint answers 401 exactly when the signature is not verified,
\* without handling the body then, and 200 otherwise.
C8_Status401IffNotVerified ==
    \A p \in Threads :
        th[p].pc = "done"
        => /\ th[p].status = 401 <=> th[p].sig # "true"
           /\ th[p].status = 200 <=> th[p].sig = "true"
           /\ th[p].sig # "true" => th[p].op = "rejected"

\* the requests that carry an audio message
AudioRequests == {req \in Requests : req.body.json /\ req.body.msgtype = "audio"}

\* C11: an audio message reaches process_voice_message only when its
\* download code is non-empty and the application key and secret are both
\* set; with an empty download code the fixed "no voice file" reply is
\* returned, otherwise with a key or secret missing the fixed explanatory
\* reply, and in both cases the handler returns at once: no call to the
\* network or to chat is made and no transcript changes.
C11_VoiceOnlyWithCodeAndCredentials ==
    [][\A p \in Threads :
          \A req \in AudioRequests :
             (/\ th'[p].sig = "true"
              /\ th'[p].user_id = req.body.senderId
              /\ webhook(p, req))
             => LET code == req.body.downloadCode
                    configured == /\ config.DINGTALK_APP_KEY # ""
                                  /\ config.DINGTALK_APP_SECRET # ""
                IN  /\ th'[p].op = "audio"
                    /\ th'[p].pc = "voice" <=> (code # "" /\ configured)
                    /\ code = "" => th'[p].reply = "no_voice_file"
                    /\ (code # "" /\ ~configured)
                          => th'[p].reply = "voice_unconfigured"
                    /\ th'[p].pc # "voice"
                          => /\ th'[p].pc = "done"
                             /\ th'[p].status = 200
                             /\ conversation_history' = conversation_history
                             /\ sent' = sent]_vars

\* an audio message with a download code was answered with the explanatory
\* reply by a server that has the application key but not the secret
C11_Witness ==
    \E p \in Threads :
        /\ th[p].pc = "done"
        /\ th[p].op = "audio"
        /\ th[p].reply = "voice_unconfigured"
        /\ config.DINGTALK_APP_KEY # ""
        /\ config.DINGTALK_APP_SECRET = ""

\* the positions of a thread inside OpenAIUtils.chat
ChatPcs == {"L42", "L43", "L45", "L51", "L57", "L59", "L60", "L61", "L65",
            "backend"}

\* C12: the text recognised from an audio message is routed as a text
\* message with that content from the same sender would be: to report
\* generation when a trigger keyword occurs in it, to chat otherwise; a
\* text with a failure prefix is returned as it is, with no backend call.
C12_RecognisedTextRoutedAsText ==
    [][\A p \in Threads :
          process_voice_message(p)
          => \/ /\ th'[p].pc = "done"
                /\ th'[p].reply \in VoiceFailures
                /\ sent' = sent
             \/ /\ th'[p].pc \in ChatPcs \cup {"report"}
                /\ th'[p].user_id = th[p].user_id
                /\ th'[p].pc = "report"
                     <=> should_generate_report(th'[p].message.text,
                                                REPORT_TRIGGER_KEYWORDS)]_vars

\* C14: when the backend call of report generation has failed, no PDF is
\* made from the error text and the request is answered with an error
\* reply, never with the "report generated" reply.
C14_ReportFailureReported ==
    \A p \in Threads :
        (th[p].op = "report" /\ th[p].report_content = "error_text")
        => /\ th[p].pc # "pdf"
           /\ th[p].pc = "done" => th[p].reply = "report_error"

\* C15: verify_signature returns True exactly when the timestamp reads as
\* an integer within SignatureWindowMs of the clock, either way, and the
\* signature is base64(HMAC-SHA256(secret, timestamp + "\n" + secret)) over
\* the timestamp text as received; for a timestamp that reads as an integer
\* it returns False otherwise.
C15_AcceptsIffFreshAndSigned ==
    vcall.result # "none"
    => LET ts == vcall.timestamp
           k == vcall.app_secret
           reads == ts.fmt \in {"int", "padded"}
           fresh == /\ vcall.now - ts.val <= SignatureWindowMs
                    /\ ts.val - vcall.now <= SignatureWindowMs
           signed == vcall.sign = <<"hmac-sha256", k, <<ts, "\n", k>> >>
       IN  /\ vcall.result = "true" <=> (reads /\ fresh /\ signed)
           /\ reads => vcall.result \in {"true", "false"}

\* a correctly signed timestamp exactly one window in the future was accepted
C15_Witness ==
    /\ vcall.result = "true"
    /\ vcall.timestamp.val - vcall.now = SignatureWindowMs
    /\ vcall.app_secret # ""

\* verify_signature rejected a correctly signed timestamp that was one
\* millisecond beyond the window
C15_RejectsStale ==
    /\ vcall.result = "false"
    /\ vcall.now - vcall.timestamp.val = SignatureWindowMs + 1
    /\ vcall.sign = HmacSha256B64(vcall.app_secret,
                                  <<vcall.timestamp, "\n", vcall.app_secret>>)

----------------------------------------------------------------------------
(* Properties of the daily news push *)

\* C16: a run of push_daily_news posts exactly one message to the webhook
\* when a webhook URL is set; when none is set it makes no request at all,
\* neither to the news source nor to the webhook; no exception leaves it.
C16_OnePostOrNoNetwork ==
    (sched.pc = "done" /\ sched.op = "push")
    => /\ config.DINGTALK_WEBHOOK_URL # "" => sched.posts = 1
       /\ config.DINGTALK_WEBHOOK_URL = ""
            => (sched.posts = 0 /\ sched.gets = 0)
       /\ sched.outcome \in PostOutcomes \cup {"skipped"}

\* C17: when get_daily_news has returned, the news source was asked exactly
\* when a key is set and use_mock is false, and before anything else; the
\* mock items were used exactly when it was not asked, failed or had no
\* article; the text is never the "no news" placeholder.
C17_FallbackToMock ==
    sched.pc \in {"post", "done"}
    => /\ sched.gets = 1 <=> (config.NEWS_API_KEY # "" /\ ~sched.use_mock)
       /\ sched.gets = 0 <=> sched.live = "none"
       /\ sched.news_list = get_ai_news_mock <=> sched.live # "items"
       /\ sched.news_list # << >>
       /\ sched.news_content = [text |-> "digest", items |-> sched.news_list]

\* the request to the news source failed and the mock items were returned
C17_Witness ==
    /\ sched.pc = "done"
    /\ sched.op = "news"
    /\ sched.live = "timeout"
    /\ sched.news_content.text = "digest"
    /\ Len(sched.news_content.items) = Len(get_ai_news_mock)

----------------------------------------------------------------------------
(* Properties of concurrent requests *)

\* C9: what atomic chat and clear_conversation calls for one user imply once
\* every call has returned: each transcript has one system turn, which is
\* first, and, when no transcript was cleared, every user turn appended by
\* the concurrent calls is in it (they are too few for any serial order to
\* trim one of them away).
C9_CallsAppearAtomic ==
    Quiescent
    => \A u \in Users :
          /\ u \in DOMAIN conversation_history
                => LET h == conversation_history[u]
                   IN  /\ Len(h) >= 1
                       /\ h[1] = SystemTurn
                       /\ \A i \in 2 .. Len(h) : h[i].role # "system"
          /\ clears = 0
                => \A n \in (InitialSent(u) + 1) .. sent[u] :
                      /\ u \in DOMAIN conversation_history
                      /\ \E i \in 1 .. Len(conversation_history[u]) :
                            conversation_history[u][i]
                                = UserTurn(Content(ChatText, u, n))

\* C18: after the first chat calls of a user without a transcript, run at
\* the same time in any interleaving, the user's transcript holds exactly
\* one system turn, which is first, and the user turn of every one of the
\* calls.
C18_OneSystemTurnAfterRacingFirstCalls ==
    \A u \in Users :
        (/\ InitialSent(u) = 0
         /\ clears = 0
         /\ sent[u] = MaxNewChats
         /\ \A p \in Threads : th[p].user_id = u /\ th[p].pc = "done")
        => /\ u \in DOMAIN conversation_history
           /\ Len(SystemOnly(conversation_history[u])) = 1
           /\ conversation_history[u][1].role = "system"
           /\ \A n \in 1 .. sent[u] :
                 \E i \in 1 .. Len(conversation_history[u]) :
                    conversation_history[u][i] = UserTurn(Content(ChatText, u, n))

\* C21: when the backend answers a chat call, the call returns the
\* backend's reply, also when clear_conversation ran for the user during
\* the wait, and the user's transcript is then absent or starts with the
\* system turn; an answer of the backend is never turned into an error reply.
C21_ClearDuringWaitKeepsReply ==
    [][\A p \in Threads :
          (chat_backend(p) /\ failures' = failures)
          => LET u == th[p].user_id
             IN  /\ th'[p].reply = "assistant"
                 /\ \/ u \notin DOMAIN conversation_history'
                    \/ conversation_history'[u][1] = SystemTurn]_vars

\* C22: a call of process_voice_message requests a token exactly when no
\* non-empty token has been obtained before it (a failed request caches
\* nothing, so the next call asks again; an obtained token is never asked
\* for again); a call that goes on to the download uses the cached token,
\* and a failing download leaves the cached token as it is.
C22_TokenObtainedOnceAndReused ==
    [][\A p \in Threads :
          /\ get_access_token_L172(p)
                => (th'[p].pc = "gettoken" <=> voice_processor.issued = 0)
          /\ get_access_token_L177(p)
                => (th'[p].pc = "download"
                      => th'[p].access_token = voice_processor.access_token)
          /\ download_audio_from_dingtalk(p)
                => voice_processor' = voice_processor]_vars

\* C10: a step of a chat or clear_conversation call for one user leaves the
\* transcript of every other user as it was, present or absent, and the
\* payload built for a user holds, after the system turn, turns of that
\* user only.
C10_UsersDoNotInterfere ==
    [][\A p \in Threads, u \in Users :
          (clear_conversation(p, u) \/ (ChatStep(p) /\ th[p].user_id = u))
          => /\ \A v \in Users \ {u} :
                   /\ v \in DOMAIN conversation_history'
                        <=> v \in DOMAIN conversation_history
                   /\ v \in DOMAIN conversation_history
                        => conversation_history'[v] = conversation_history[v]
             /\ th'[p].pc = "backend"
                   => \A i \in 1 .. Len(th'[p].messages) :
                         \/ th'[p].messages[i] = SystemTurn
                         \/ th'[p].messages[i].content.from = u]_vars

\* calls for the two users wait on the backend at the same time
C10_Witness ==
    \E p \in Threads, q \in Threads :
        /\ th[p].pc = "backend" /\ th[p].user_id = "u1"
        /\ th[q].pc = "backend" /\ th[q].user_id = "u2"
        /\ Len(th[p].recent_msgs) = RecentCount

====
